---- MODULE Spec2Model ----
(***************************************************************************)
(* State-machine model of SmokeAlarmDetector                               *)
(* (src/smoke_detection_algorithm.py).                                     *)
(*                                                                         *)
(* Time is counted in ticks of one chunk period.  Real numbers are exact   *)
(* rationals <<n, d>> with d > 0 in lowest terms.  A chunk is given by the *)
(* magnitude spectrum |rfft(hann * audio)| it produces (a noise floor and  *)
(* one tone bin); everything from line 86 of the source on is computed     *)
(* from that spectrum as the code computes it.  The 1e-10 guards of the    *)
(* divisions are dropped where the divisor is positive: every modelled     *)
(* chunk has a positive background.  The ambient level alone can be 0.     *)
(***************************************************************************)
EXTENDS Integers, Sequences, FiniteSets, TLC

VARIABLES
    cfg,                        \* constructor parameters (immutable)
    start_time,                 \* Optional[float]
    ambient_background_level,   \* float, running mean
    ambient_samples_count,      \* int
    is_learning_ambient,        \* bool
    detection_windows,          \* deque(maxlen=100) of window records
    last_alarm_time,            \* Optional[float]
    is_alarm_latched,           \* bool
    caller,                     \* the stream source driving the detector
    now,                        \* Optional: timestamp of the latest call
    calls,                      \* number of process_audio_chunk calls so far
    result,                     \* return value of the latest call
    recorded,                   \* the timestamps of all windows ever recorded
    fed,                        \* the timestamps of all calls, in order
    background_sum,             \* sum of current_background over learning calls
    last_detection,             \* Optional: time of the latest returned event
    detection_callback,         \* Optional[Callable]: the registered callback
    delivered,                  \* the events the callback has been invoked with
    last_chunk,                 \* Optional: the chunk of the latest call
    raised,                     \* Optional: the exception of the latest call
    spectral,                   \* Optional: what the latest call read off the spectrum
    parked,                     \* Optional: a second detector instance, not addressed now
    notifier,                   \* Optional: a BaseNotifier and its notify_with_retry call
    manager                     \* Optional: a NotificationManager and its notify_all call

vars == <<cfg, start_time, ambient_background_level, ambient_samples_count,
          is_learning_ambient, detection_windows, last_alarm_time,
          is_alarm_latched, caller, now, calls, result, recorded, fed,
          background_sum, last_detection, detection_callback, delivered,
          last_chunk, raised, spectral, parked, notifier, manager>>

\* the fields of the detector a call can change (lines 43-51)
detector_state == <<start_time, ambient_background_level, ambient_samples_count,
                    is_learning_ambient, detection_windows, last_alarm_time,
                    is_alarm_latched>>

----------------------------------------------------------------------------
(* Optional values: None is <<>>, a present value v is <<v>>.              *)

None == <<>>

Some(v) == <<v>>

\* Python truthiness of an Optional[float]: None and 0.0 are both falsy.
Truthy(opt) == opt # None /\ opt[1] # 0

----------------------------------------------------------------------------
(* Exact rational arithmetic.                                              *)

Abs(x) == IF x < 0 THEN -x ELSE x

RECURSIVE GCD(_, _)
GCD(a, b) == IF b = 0 THEN a ELSE GCD(b, a % b)

LCM(a, b) == (a \div GCD(a, b)) * b

Rat(n, d) ==
    LET g == GCD(Abs(n), Abs(d))
        s == IF d < 0 THEN -1 ELSE 1
    IN  <<(s * n) \div g, (s * d) \div g>>

FromInt(n) == <<n, 1>>

RAdd(x, y) ==
    LET l == LCM(x[2], y[2])
    IN  Rat(x[1] * (l \div x[2]) + y[1] * (l \div y[2]), l)

RSub(x, y) == RAdd(x, <<-y[1], y[2]>>)

RMul(x, y) ==
    LET g1 == GCD(Abs(x[1]), y[2])
        g2 == GCD(Abs(y[1]), x[2])
    IN  Rat((x[1] \div g1) * (y[1] \div g2), (x[2] \div g2) * (y[2] \div g1))

\* x / y for y # 0
RDiv(x, y) == RMul(x, Rat(y[2], y[1]))

RLt(x, y) ==
    LET l == LCM(x[2], y[2])
    IN  x[1] * (l \div x[2]) < y[1] * (l \div y[2])

RLe(x, y) == ~RLt(y, x)

RMin(x, y) == IF RLt(y, x) THEN y ELSE x

RECURSIVE SumRats(_)
SumRats(s) ==
    IF s = <<>> THEN FromInt(0)
    ELSE IF Len(s) <= 8 THEN RAdd(Head(s), SumRats(Tail(s)))
    ELSE LET half == Len(s) \div 2
         IN  RAdd(SumRats(SubSeq(s, 1, half)), SumRats(SubSeq(s, half + 1, Len(s))))

\* np.mean of a non-empty sequence of rationals
MeanRats(s) == RDiv(SumRats(s), FromInt(Len(s)))

----------------------------------------------------------------------------
(* Constructor parameters (SmokeAlarmDetector.__init__).  Times are in     *)
(* chunk periods; frequencies in Hz.                                       *)

Config(learning, sustain, latch) ==
    [sample_rate |-> 8000,
     chunk_size |-> 40,
     target_frequency |-> 3200,
     frequency_tolerance |-> 400,
     ambient_learning_time |-> learning,
     alarm_sustain_threshold |-> sustain,
     alarm_latch_time |-> latch,
     min_signal_ratio |-> 75,
     frequency_occupation_threshold |-> <<1, 4>>]

\* a short cooldown: the latch expires while the alarm pattern is still
\* inside the analysis window
ShortLatchConfig == Config(2, 6, 2)

\* a cooldown longer than the analysis window, as with the defaults
LongLatchConfig == Config(2, 6, 8)

\* the default durations at 44.1 kHz / 4096 samples, in chunk periods:
\* 10 s of learning, 4 s of analysis window, 300 s of latch
DefaultTimingConfig == Config(108, 43, 3230)

\* a cooldown of no length: the constructor takes any value
ZeroLatchConfig == Config(2, 6, 0)

\* the default durations with chunks of a third of a second: 10 s of
\* learning, 4 s of analysis window, 300 s of latch
ThirdSecondConfig == Config(30, 12, 900)

\* the default durations with chunks of a quarter of a second
QuarterSecondConfig == Config(40, 16, 1200)

\* a target band between two bins of the transform: 3250 Hz to 3350 Hz,
\* with bins every 200 Hz
NarrowBandConfig ==
    [LongLatchConfig EXCEPT !.target_frequency = 3300, !.frequency_tolerance = 50]

\* deque(maxlen=100)
detection_windows_maxlen == 100

----------------------------------------------------------------------------
(* Chunks, by the magnitude spectrum they produce.                         *)

Chunk(floor, bin, mag) ==
    [samples |-> 40, floor |-> floor, tone_bin |-> bin, tone_mag |-> mag]

\* background noise only
Quiet == Chunk(1, 0, 1)

\* louder background noise only
Noisy == Chunk(3, 0, 3)

\* a 3200 Hz tone
Soft == Chunk(1, 16, 600)

\* a louder 3400 Hz tone
Loud == Chunk(1, 17, 1800)

\* broadband noise: far above the learnt ambient level, no peak
Hiss == Chunk(80, 0, 80)

\* a 3200 Hz tone on a raised floor: above the background, below 12 times
\* the mean magnitude
Hum == Chunk(5, 16, 100)

\* a 3200 Hz tone too weak against the learnt ambient level
Faint == Chunk(1, 16, 50)

\* a 3200 Hz tone at high amplitude
Tone == Chunk(1, 16, 1000)

\* the same tone switched off half way through the chunk: the window of
\* line 82 leaves half of its magnitude
EdgeTone == Chunk(1, 16, 500)

\* background noise only, in an array of half the chunk size
ShortChunk == [Quiet EXCEPT !.samples = 20]

\* an array of no samples
EmptyChunk == [Quiet EXCEPT !.samples = 0]

----------------------------------------------------------------------------
(* Spectral analysis of one chunk: process_audio_chunk, lines 81-100 and   *)
(* 113-124.                                                                *)

\* bins of np.fft.rfft: len(audio) // 2 + 1 of them
Bins(chunk) == 0 .. (chunk.samples \div 2)

\* magnitudes[k], magnitudes = np.abs(fft)
Magnitude(chunk, k) == IF k = chunk.tone_bin THEN chunk.tone_mag ELSE chunk.floor

\* freqs[k], freqs = np.fft.rfftfreq(len(windowed), 1/sample_rate); the
\* modelled lengths divide the sample rate
Freq(chunk, k) == (k * cfg.sample_rate) \div chunk.samples

\* fault variant: the mask has no upper bound
TargetMaskOpenAbove(chunk) ==
    {k \in Bins(chunk) :
        Freq(chunk, k) >= cfg.target_frequency - cfg.frequency_tolerance}

\* mask = (freqs >= target_range[0]) & (freqs <= target_range[1])
TargetMask(chunk) ==
    {k \in Bins(chunk) :
        /\ Freq(chunk, k) >= cfg.target_frequency - cfg.frequency_tolerance
        /\ Freq(chunk, k) <= cfg.target_frequency + cfg.frequency_tolerance}

\* the sum of magnitudes[k] over the bins k of S: the floor on every bin,
\* and the tone on its own
SumOver(chunk, S) ==
    chunk.floor * Cardinality(S)
    + (IF chunk.tone_bin \in S THEN chunk.tone_mag - chunk.floor ELSE 0)

\* np.mean(magnitudes[S]) for a non-empty set S of bins
MeanOver(chunk, S) == Rat(SumOver(chunk, S), Cardinality(S))

\* np.argmax(magnitudes[mask]): the first bin holding the largest magnitude
ArgMax(chunk, mask) ==
    CHOOSE k \in mask :
        \A j \in mask :
            \/ Magnitude(chunk, j) < Magnitude(chunk, k)
            \/ (Magnitude(chunk, j) = Magnitude(chunk, k) /\ k <= j)

\* fault variant: the background of the chunk is smoothed with the level
\* learnt so far
AnalyzeWithMemory(chunk) ==
    LET mask == TargetMask(chunk)
        background_mask == Bins(chunk) \ mask
        mean_magnitude == MeanOver(chunk, Bins(chunk))
        peak_idx == ArgMax(chunk, mask)
    IN  [has_target |-> mask # {},
         mean_magnitude |-> mean_magnitude,
         current_background |->
             RDiv(RAdd(MeanOver(chunk, background_mask), ambient_background_level),
                  FromInt(2)),
         peak_magnitude |-> IF mask = {} THEN 0 ELSE Magnitude(chunk, peak_idx),
         peak_frequency |-> IF mask = {} THEN 0 ELSE Freq(chunk, peak_idx)]

\* lines 81-100 and 118-124: what the detector reads off the spectrum
Analyze(chunk) ==
    LET mask == TargetMask(chunk)
        background_mask == Bins(chunk) \ mask
        mean_magnitude == MeanOver(chunk, Bins(chunk))
        peak_idx == ArgMax(chunk, mask)
    IN  [has_target |-> mask # {},
         mean_magnitude |-> mean_magnitude,
         current_background |->
             IF background_mask # {}
             THEN MeanOver(chunk, background_mask)
             ELSE RMul(mean_magnitude, <<1, 10>>),
         peak_magnitude |-> IF mask = {} THEN 0 ELSE Magnitude(chunk, peak_idx),
         peak_frequency |-> IF mask = {} THEN 0 ELSE Freq(chunk, peak_idx)]

\* the guard added to the divisor of line 127.  The code adds 1e-10; a
\* quotient by the guard alone is compared with min_signal_ratio only, and
\* 1e-6 gives the same answers for every magnitude of at least 1 while it
\* keeps the quotient inside 32-bit integers.
Epsilon == <<1, 1000000>>

\* line 127, with the ambient level in force.  The guard decides the
\* quotient when no chunk has been learnt (ambient = 0) and is dropped
\* otherwise.
SignalToBackground(a, ambient) ==
    IF ambient[1] = 0
    THEN RDiv(FromInt(a.peak_magnitude), Epsilon)
    ELSE RDiv(FromInt(a.peak_magnitude), ambient)

\* line 128
SignalToCurrent(a) == RDiv(FromInt(a.peak_magnitude), a.current_background)

\* fault variant: only the ratio to the ambient level is tested
StrongAgainstAmbientOnly(a, ambient) ==
    RLt(FromInt(cfg.min_signal_ratio), SignalToBackground(a, ambient))

\* lines 131-135
IsStrongSignal(a, ambient) ==
    /\ RLt(FromInt(cfg.min_signal_ratio), SignalToBackground(a, ambient))
    /\ RLt(FromInt(8), SignalToCurrent(a))
    /\ RLt(RMul(a.mean_magnitude, FromInt(12)), FromInt(a.peak_magnitude))

\* the dict _record_detection_window appends, lines 147-153
Window(timestamp, is_strong_signal, frequency, signal_ratio, magnitude) ==
    [timestamp |-> timestamp,
     is_strong_signal |-> is_strong_signal,
     frequency |-> frequency,
     signal_ratio |-> signal_ratio,
     magnitude |-> magnitude]

\* fault variant: with an empty band the window is recorded at the target
\* frequency
ClassifiedWindowAtTarget(current_time, a, ambient) ==
    IF ~a.has_target
    THEN Window(current_time, FALSE, cfg.target_frequency, FromInt(0), 0)
    ELSE Window(current_time, IsStrongSignal(a, ambient), a.peak_frequency,
                SignalToBackground(a, ambient), a.peak_magnitude)

\* the window recorded for a classified chunk: lines 113-139
ClassifiedWindow(current_time, a, ambient) ==
    IF ~a.has_target
    THEN Window(current_time, FALSE, 0, FromInt(0), 0)
    ELSE Window(current_time, IsStrongSignal(a, ambient), a.peak_frequency,
                SignalToBackground(a, ambient), a.peak_magnitude)

\* fault variant: a list in place of the bounded deque, nothing is evicted
AppendUnbounded(q, w) == Append(q, w)

\* fault variant: a full buffer drops its newest entry in place of its oldest
AppendEvictingNewest(q, w) ==
    IF Len(q) >= detection_windows_maxlen
    THEN Append(SubSeq(q, 1, Len(q) - 1), w)
    ELSE Append(q, w)

\* deque.append on a deque(maxlen=100): a full deque drops its oldest entry
RingAppend(q, w) ==
    IF Len(q) >= detection_windows_maxlen
    THEN Append(Tail(q), w)
    ELSE Append(q, w)

----------------------------------------------------------------------------
(* _analyze_sustained_detection, lines 155-241.  A standard deviation is   *)
(* carried as its square, the population variance.                         *)

Square(x) == RMul(x, x)

\* np.std(xs) ** 2 for a non-empty sequence of rationals:
\* mean(abs(x - x.mean()) ** 2)
PopVariance(xs) ==
    LET m == MeanRats(xs)
    IN  MeanRats([i \in 1 .. Len(xs) |-> Square(RSub(xs[i], m))])

\* lines 167-170
RecentDetections(windows, current_time) ==
    LET InWindow(d) == current_time - d.timestamp <= cfg.alarm_sustain_threshold
    IN  SelectSeq(windows, InWindow)

\* line 181
StrongDetections(recent) ==
    LET Strong(d) == d.is_strong_signal
    IN  SelectSeq(recent, Strong)

\* lines 176-178
FrequencyOccupationRatio(recent, strong) == Rat(Len(strong), Len(recent))

\* line 185
Frequencies(strong) == [i \in 1 .. Len(strong) |-> FromInt(strong[i].frequency)]

\* line 198
SignalRatios(strong) == [i \in 1 .. Len(strong) |-> strong[i].signal_ratio]

\* line 206, squared: (signal_ratio_std / avg_signal_ratio) ** 2
Variation2(avg_signal_ratio, ratio_variance) ==
    IF avg_signal_ratio[1] = 0 THEN FromInt(0)
    ELSE RDiv(ratio_variance, Square(avg_signal_ratio))

\* fault variant: the upper bound of the occupation is not tested
OccupationAtLeastFifth(ratio) == RLe(<<1, 5>>, ratio)

\* fault variant: the occupation may reach nine tenths
OccupationUpToNineTenths(ratio) == RLe(<<1, 5>>, ratio) /\ RLe(ratio, <<9, 10>>)

\* fault variant: the occupation has to stay below one half
OccupationBelowHalf(ratio) == RLe(<<1, 5>>, ratio) /\ RLt(ratio, <<1, 2>>)

\* line 203: 0.20 <= frequency_occupation_ratio <= 0.80
IsReasonableOccupation(ratio) == RLe(<<1, 5>>, ratio) /\ RLe(ratio, <<4, 5>>)

\* line 207: 0.1 <= signal_strength_variation <= 2.0
HasReasonableVariation(variation2) ==
    /\ RLe(Square(<<1, 10>>), variation2)
    /\ RLe(variation2, Square(FromInt(2)))

\* fault variant: the consistency tests the frequency spread only
HasFrequencyConsistency(freq_variance, avg_signal_ratio, variation2) ==
    \/ /\ RLt(Square(FromInt(10)), freq_variance)
       /\ RLt(freq_variance, Square(FromInt(100)))
    \/ /\ RLe(freq_variance, Square(FromInt(10)))
       /\ RLt(FromInt(500), avg_signal_ratio)

\* lines 211-214
HasAppropriateConsistency(freq_variance, avg_signal_ratio, variation2) ==
    /\ \/ /\ RLt(Square(FromInt(10)), freq_variance)
          /\ RLt(freq_variance, Square(FromInt(100)))
       \/ /\ RLe(freq_variance, Square(FromInt(10)))
          /\ RLt(FromInt(500), avg_signal_ratio)
    /\ RLt(Square(<<1, 5>>), variation2)
    /\ RLt(variation2, Square(<<6, 5>>))

\* fault variant: the variation of the signal strength is not tested
DecisionIgnoringVariation(recent, strong) ==
    LET ratio == FrequencyOccupationRatio(recent, strong)
        freq_variance == PopVariance(Frequencies(strong))
        avg_frequency == MeanRats(Frequencies(strong))
        avg_signal_ratio == MeanRats(SignalRatios(strong))
    IN  /\ RLe(cfg.frequency_occupation_threshold, ratio)
        /\ IsReasonableOccupation(ratio)
        /\ RLt(FromInt(cfg.min_signal_ratio), avg_signal_ratio)
        /\ HasFrequencyConsistency(freq_variance, avg_signal_ratio, FromInt(0))
        /\ RLe(FromInt(cfg.target_frequency - cfg.frequency_tolerance), avg_frequency)
        /\ RLe(avg_frequency, FromInt(cfg.target_frequency + cfg.frequency_tolerance))
        /\ Len(strong) >= 5

\* fault variant: the count of strong windows is not required to reach 5
DecisionWithoutCount(recent, strong) ==
    LET ratio == FrequencyOccupationRatio(recent, strong)
        freq_variance == PopVariance(Frequencies(strong))
        avg_frequency == MeanRats(Frequencies(strong))
        avg_signal_ratio == MeanRats(SignalRatios(strong))
        variation2 == Variation2(avg_signal_ratio, PopVariance(SignalRatios(strong)))
    IN  /\ RLe(cfg.frequency_occupation_threshold, ratio)
        /\ IsReasonableOccupation(ratio)
        /\ RLt(FromInt(cfg.min_signal_ratio), avg_signal_ratio)
        /\ HasReasonableVariation(variation2)
        /\ HasAppropriateConsistency(freq_variance, avg_signal_ratio, variation2)
        /\ RLe(FromInt(cfg.target_frequency - cfg.frequency_tolerance), avg_frequency)
        /\ RLe(avg_frequency, FromInt(cfg.target_frequency + cfg.frequency_tolerance))

\* lines 185-224, for recent windows that passed the early returns
DecisionPredicate(recent, strong) ==
    LET ratio == FrequencyOccupationRatio(recent, strong)
        freq_variance == PopVariance(Frequencies(strong))
        avg_frequency == MeanRats(Frequencies(strong))
        avg_signal_ratio == MeanRats(SignalRatios(strong))
        variation2 == Variation2(avg_signal_ratio, PopVariance(SignalRatios(strong)))
    IN  /\ RLe(cfg.frequency_occupation_threshold, ratio)
        /\ IsReasonableOccupation(ratio)
        /\ RLt(FromInt(cfg.min_signal_ratio), avg_signal_ratio)
        /\ HasReasonableVariation(variation2)
        /\ HasAppropriateConsistency(freq_variance, avg_signal_ratio, variation2)
        /\ RLe(FromInt(cfg.target_frequency - cfg.frequency_tolerance), avg_frequency)
        /\ RLe(avg_frequency, FromInt(cfg.target_frequency + cfg.frequency_tolerance))
        /\ Len(strong) >= 5

\* lines 162-224: the early returns, then the decision
AlarmDetected(windows, current_time) ==
    LET recent == RecentDetections(windows, current_time)
        strong == StrongDetections(recent)
    IN  /\ Len(windows) >= 5
        /\ Len(recent) >= 3
        /\ Len(strong) >= 2
        /\ DecisionPredicate(recent, strong)

\* fault variant: the confidence is not capped at 1
EventWithUncappedConfidence(windows, current_time) ==
    LET recent == RecentDetections(windows, current_time)
        strong == StrongDetections(recent)
        ratio == FrequencyOccupationRatio(recent, strong)
    IN  [timestamp |-> current_time,
         frequency |-> MeanRats(Frequencies(strong)),
         strength |-> MeanRats(SignalRatios(strong)),
         confidence |-> RMul(ratio, FromInt(2)),
         detection_type |-> "sustained_frequency",
         frequency_occupation |-> ratio,
         analysis_window |-> cfg.alarm_sustain_threshold]

\* lines 231-239
DetectionEvent(windows, current_time) ==
    LET recent == RecentDetections(windows, current_time)
        strong == StrongDetections(recent)
        ratio == FrequencyOccupationRatio(recent, strong)
    IN  [timestamp |-> current_time,
         frequency |-> MeanRats(Frequencies(strong)),
         strength |-> MeanRats(SignalRatios(strong)),
         confidence |-> RMin(FromInt(1), RMul(ratio, FromInt(2))),
         detection_type |-> "sustained_frequency",
         frequency_occupation |-> ratio,
         analysis_window |-> cfg.alarm_sustain_threshold]

\* fault variant: the event reports the peak of the chunk of the call, not
\* the means over the strong windows
AnalysisReportingPeak(windows, current_time, peak_frequency, signal_ratio) ==
    IF AlarmDetected(windows, current_time)
    THEN Some([DetectionEvent(windows, current_time)
                   EXCEPT !.frequency = FromInt(peak_frequency),
                          !.strength = signal_ratio])
    ELSE None

\* lines 155-241: the value _analyze_sustained_detection returns when the
\* buffer holds windows and it is called with these arguments
AnalyzeSustainedDetection(windows, current_time, peak_frequency, signal_ratio) ==
    IF AlarmDetected(windows, current_time)
    THEN Some(DetectionEvent(windows, current_time))
    ELSE None

----------------------------------------------------------------------------
(* process_audio_chunk, lines 57-142.                                      *)

\* fault variant: start_time is tested by truthiness, so that 0.0 counts as
\* not set
StartTimeIfFalsy(current_time) ==
    IF ~Truthy(start_time) THEN current_time ELSE start_time[1]

\* lines 71-72
StartTime(current_time) ==
    IF start_time = None THEN current_time ELSE start_time[1]

\* fault variant: the comparison with alarm_latch_time is inverted
InLatchPeriodInverted(current_time) ==
    /\ is_alarm_latched
    /\ Truthy(last_alarm_time)
    /\ current_time - last_alarm_time[1] >= cfg.alarm_latch_time

\* fault variant: the latch lasts for the analysis window only
InLatchPeriodOfWindow(current_time) ==
    /\ is_alarm_latched
    /\ Truthy(last_alarm_time)
    /\ current_time - last_alarm_time[1] < cfg.alarm_sustain_threshold

\* lines 75-77: the call returns at once, still in the latch period
InLatchPeriod(current_time) ==
    /\ is_alarm_latched
    /\ Truthy(last_alarm_time)
    /\ current_time - last_alarm_time[1] < cfg.alarm_latch_time

\* lines 75-79: is_alarm_latched once the latch check has let the call through
LatchAfterCheck(current_time) ==
    IF is_alarm_latched /\ Truthy(last_alarm_time) THEN FALSE ELSE is_alarm_latched

\* fault variant: the learning window closes one chunk period early
StillLearningShort(current_time) ==
    /\ is_learning_ambient
    /\ current_time - StartTime(current_time) < cfg.ambient_learning_time - 1

\* fault variant: the call at the end of the learning window still learns
StillLearningInclusive(current_time) ==
    /\ is_learning_ambient
    /\ current_time - StartTime(current_time) <= cfg.ambient_learning_time

\* lines 103-104
StillLearning(current_time) ==
    /\ is_learning_ambient
    /\ current_time - StartTime(current_time) < cfg.ambient_learning_time

\* fault variant: the level is averaged with the new background, unweighted
HalvedAmbientLevel(current_background) ==
    RDiv(RAdd(ambient_background_level, current_background), FromInt(2))

\* lines 105-107: the running mean
UpdatedAmbientLevel(current_background) ==
    RDiv(RAdd(RMul(ambient_background_level, FromInt(ambient_samples_count)),
              current_background),
         FromInt(ambient_samples_count + 1))

\* fault variant: the sample counter is advanced twice
SamplesCountTwice == ambient_samples_count + 2

\* line 108
UpdatedSamplesCount == ambient_samples_count + 1

\* fault variant: appendleft in place of append
PrependedWindows(window) ==
    LET q == <<window>> \o detection_windows
    IN  IF Len(q) > detection_windows_maxlen
        THEN SubSeq(q, 1, detection_windows_maxlen)
        ELSE q

\* the buffer after _record_detection_window, lines 115, 138 and 147
RecordedWindows(window) == RingAppend(detection_windows, window)

\* lines 114-116 and 142: an empty target band returns before the
\* analysis, which is otherwise called with the peak frequency and the
\* signal ratio of the chunk
SustainedAnalysis(a, window, windows, current_time) ==
    IF a.has_target
    THEN AnalyzeSustainedDetection(windows, current_time,
                                   a.peak_frequency, window.signal_ratio)
    ELSE None

\* the spectral quantities a call computes: the background of lines 97-100
\* and, once the call classifies a non-empty band, the peak of lines 122-124
SpectralQuantities(a, with_peak) ==
    IF with_peak
    THEN [current_background |-> a.current_background,
          peak_magnitude |-> a.peak_magnitude,
          peak_frequency |-> a.peak_frequency]
    ELSE [current_background |-> a.current_background]

\* lines 82-85: the transform of an empty array raises ValueError
TransformRaises(chunk) == chunk.samples = 0

ProcessAudioChunk(current_time, chunk) ==
    LET a == Analyze(chunk)
        window == ClassifiedWindow(current_time, a, ambient_background_level)
        windows == RecordedWindows(window)
        detection == SustainedAnalysis(a, window, windows, current_time)
    IN
    /\ start_time' = Some(StartTime(current_time))
    /\ now' = Some(current_time)
    /\ calls' = calls + 1
    /\ fed' = Append(fed, current_time)
    /\ last_chunk' = Some(chunk)
    /\ UNCHANGED <<cfg, caller, detection_callback, parked, notifier, manager>>
    /\ IF InLatchPeriod(current_time)
       THEN /\ result' = None
            /\ raised' = None
            /\ spectral' = None
            /\ UNCHANGED <<ambient_background_level, ambient_samples_count,
                           is_learning_ambient, detection_windows, last_alarm_time,
                           is_alarm_latched, recorded, background_sum, last_detection>>
       ELSE IF TransformRaises(chunk)
       THEN /\ is_alarm_latched' = LatchAfterCheck(current_time)
            /\ result' = None
            /\ raised' = Some("ValueError")
            /\ spectral' = None
            /\ UNCHANGED <<ambient_background_level, ambient_samples_count,
                           is_learning_ambient, detection_windows, last_alarm_time,
                           recorded, background_sum, last_detection>>
       ELSE IF StillLearning(current_time)
       THEN /\ raised' = None
            /\ spectral' = Some(SpectralQuantities(a, FALSE))
            /\ ambient_background_level' = UpdatedAmbientLevel(a.current_background)
            /\ ambient_samples_count' = UpdatedSamplesCount
            /\ is_alarm_latched' = LatchAfterCheck(current_time)
            /\ result' = None
            /\ background_sum' = RAdd(background_sum, a.current_background)
            /\ UNCHANGED <<is_learning_ambient, detection_windows, last_alarm_time,
                           recorded, last_detection>>
       ELSE /\ raised' = None
            /\ spectral' = Some(SpectralQuantities(a, a.has_target))
            /\ is_learning_ambient' = FALSE
            /\ detection_windows' = windows
            /\ recorded' = Append(recorded, current_time)
            /\ UNCHANGED <<ambient_background_level, ambient_samples_count,
                           background_sum>>
            /\ IF detection # None
               THEN /\ last_alarm_time' = Some(current_time)
                    /\ is_alarm_latched' = TRUE
                    /\ result' = detection
                    /\ last_detection' = Some(current_time)
               ELSE /\ is_alarm_latched' = LatchAfterCheck(current_time)
                    /\ result' = None
                    /\ UNCHANGED <<last_alarm_time, last_detection>>

\* set_detection_callback, lines 282-284
SetDetectionCallback ==
    /\ caller.registers
    /\ calls = 0
    /\ detection_callback = None
    /\ detection_callback' = Some("callback")
    /\ UNCHANGED <<cfg, start_time, ambient_background_level,
                   ambient_samples_count, is_learning_ambient, detection_windows,
                   last_alarm_time, is_alarm_latched, caller, now, calls, result,
                   recorded, fed, background_sum, last_detection, delivered,
                   last_chunk, raised, spectral, parked, notifier, manager>>

\* fault variant: the callback runs whether or not an event was returned
StreamAlwaysCalling(current_time, chunk) ==
    /\ ProcessAudioChunk(current_time, chunk)
    /\ delivered' = IF detection_callback # None
                    THEN Append(delivered, IF result' # None THEN result'[1] ELSE None)
                    ELSE delivered

\* process_audio_stream, lines 286-301: the callback runs after
\* process_audio_chunk has returned an event, if one is registered
ProcessAudioStream(current_time, chunk) ==
    /\ ProcessAudioChunk(current_time, chunk)
    /\ delivered' = IF result' # None /\ detection_callback # None
                    THEN Append(delivered, result'[1])
                    ELSE delivered

\* the entry point a stream source uses
Feed(current_time, chunk) ==
    /\ caller.registers => detection_callback # None
    /\ IF caller.entry = "stream"
       THEN ProcessAudioStream(current_time, chunk)
       ELSE ProcessAudioChunk(current_time, chunk) /\ UNCHANGED delivered

----------------------------------------------------------------------------
(* The stream sources.  Every source supplies non-decreasing timestamps.   *)

\* windows a steady stream records before it stops
MaxRecorded == 9

\* calls of an irregular stream
MaxFreeCalls == 6

\* calls of a scripted stream
MaxScriptCalls == 160

\* one chunk per chunk period from time first on, any content
Steady(first) ==
    [mode |-> "steady", first |-> first, pattern |-> <<>>,
     entry |-> "stream", registers |-> TRUE]

\* any non-decreasing timestamps from time 0 on
Free ==
    [mode |-> "free", first |-> 0, pattern |-> <<>>,
     entry |-> "stream", registers |-> TRUE]

\* file replay: chunk i of a repeating pattern at time i
Scripted(pattern) ==
    [mode |-> "scripted", first |-> 0, pattern |-> pattern,
     entry |-> "stream", registers |-> TRUE]

\* a scripted stream fed to process_audio_chunk, with a callback registered
Direct(pattern) == [Scripted(pattern) EXCEPT !.entry = "chunk"]

\* a scripted stream fed to process_audio_stream with no callback registered
Unregistered(pattern) == [Scripted(pattern) EXCEPT !.registers = FALSE]

\* time steps of an irregular stream: a repeated timestamp, a pause
FreeSteps == {0, 2}

\* a stream of noise chunks of background noise followed by a pulsed tone:
\* pulses repetitions of the chunks of one on/off period
NoiseThenPulses(noise, period, pulses) ==
    [i \in 1 .. noise + pulses * Len(period) |->
        IF i <= noise THEN Quiet ELSE period[((i - noise - 1) % Len(period)) + 1]]

\* 10 s of noise, then 10 s of a tone on for 0.5 s and off for 0.5 s, in
\* chunks of a quarter of a second: every chunk is all tone or all noise
AlignedPulses == NoiseThenPulses(40, <<Tone, Tone, Quiet, Quiet>>, 10)

\* the same stream in chunks of a third of a second: the tone stops half
\* way through every second chunk
EdgedPulses == NoiseThenPulses(30, <<Tone, EdgeTone, Quiet>>, 10)

\* a stream that starts at time -8: an alarm pattern that is detected at
\* time 0, three chunks of noise, then tones again
PausedAlarm ==
    <<Quiet, Soft, Loud, Quiet, Soft, Loud, Quiet, Soft, Loud,
      Quiet, Quiet, Quiet, Soft, Loud, Soft, Loud, Soft>>

\* a scripted stream whose first chunk has the timestamp first
ScriptedFrom(first, pattern) == [Scripted(pattern) EXCEPT !.first = first]

Sessions ==
    {[caller |-> Steady(-8), cfg |-> ShortLatchConfig],
     [caller |-> ScriptedFrom(-8, PausedAlarm), cfg |-> LongLatchConfig],
     [caller |-> Free, cfg |-> ShortLatchConfig],
     [caller |-> Scripted(<<Quiet>>), cfg |-> ShortLatchConfig],
     [caller |-> Scripted(<<Quiet>>), cfg |-> DefaultTimingConfig],
     [caller |-> Scripted(<<Soft, Quiet>>), cfg |-> LongLatchConfig],
     [caller |-> Scripted(<<Soft, Loud, Quiet>>), cfg |-> LongLatchConfig],
     [caller |-> Direct(<<Soft, Loud, Quiet>>), cfg |-> LongLatchConfig],
     [caller |-> Unregistered(<<Soft, Loud, Quiet>>), cfg |-> LongLatchConfig],
     [caller |-> Scripted(<<Soft, Quiet>>), cfg |-> DefaultTimingConfig],
     [caller |-> Scripted(<<Quiet, Soft, Quiet, Loud>>), cfg |-> DefaultTimingConfig],
     [caller |-> Scripted(<<Quiet, Quiet, Soft, Quiet, Quiet, Loud>>),
      cfg |-> DefaultTimingConfig],
     [caller |-> Scripted(<<Quiet, Quiet, Hiss, Hum, Faint, Soft>>),
      cfg |-> ShortLatchConfig],
     [caller |-> Scripted(<<Soft, Loud, Quiet>>), cfg |-> NarrowBandConfig],
     [caller |-> Scripted(AlignedPulses), cfg |-> QuarterSecondConfig],
     [caller |-> Scripted(EdgedPulses), cfg |-> ThirdSecondConfig]}

\* the detector as constructed for one of the sessions
Constructed(sessions) ==
    /\ \E s \in sessions : caller = s.caller /\ cfg = s.cfg
    /\ start_time = None
    /\ ambient_background_level = FromInt(0)
    /\ ambient_samples_count = 0
    /\ is_learning_ambient = TRUE
    /\ detection_windows = <<>>
    /\ last_alarm_time = None
    /\ is_alarm_latched = FALSE
    /\ now = None
    /\ calls = 0
    /\ result = None
    /\ recorded = <<>>
    /\ fed = <<>>
    /\ background_sum = FromInt(0)
    /\ last_detection = None
    /\ detection_callback = None
    /\ delivered = <<>>
    /\ last_chunk = None
    /\ raised = None
    /\ spectral = None

\* one detector, no notifier
Alone == parked = None /\ notifier = None /\ manager = None

Init == Constructed(Sessions) /\ Alone

\* the timestamp of the next chunk of a stream of one chunk per period
NextTick == IF now = None THEN caller.first ELSE now[1] + 1

SteadyCall ==
    /\ caller.mode = "steady"
    /\ Len(recorded) < MaxRecorded
    /\ \E chunk \in {Quiet, Soft, Loud} :
           Feed(NextTick, chunk)

FreeCall ==
    /\ caller.mode = "free"
    /\ calls < MaxFreeCalls
    /\ \E t \in (IF now = None THEN {caller.first} ELSE {now[1] + d : d \in FreeSteps}) :
       \E chunk \in {Quiet, Noisy} :
           Feed(t, chunk)

ScriptedCall ==
    /\ caller.mode = "scripted"
    /\ calls < MaxScriptCalls
    /\ Feed(NextTick, caller.pattern[(calls % Len(caller.pattern)) + 1])

Next == SetDetectionCallback \/ SteadyCall \/ FreeCall \/ ScriptedCall

Spec == Init /\ [][Next]_vars

----------------------------------------------------------------------------
(* Stream sources that break the contract of the caller: timestamps that   *)
(* go back, arrays of another length than chunk_size, a constructor        *)
(* parameter that is not positive.                                         *)

\* calls of a careless stream
MaxCarelessCalls == 4

\* any timestamps, any array lengths, no callback
Careless ==
    [mode |-> "careless", first |-> 0, pattern |-> <<>>,
     entry |-> "stream", registers |-> FALSE]

\* time steps of a careless stream: one chunk period back or forth
CarelessSteps == {-1, 1}

CarelessSessions ==
    {[caller |-> Careless, cfg |-> ShortLatchConfig],
     [caller |-> Careless, cfg |-> ZeroLatchConfig]}

CarelessInit == Constructed(CarelessSessions) /\ Alone

CarelessCall ==
    /\ caller.mode = "careless"
    /\ calls < MaxCarelessCalls
    /\ \E t \in (IF now = None THEN {caller.first}
                  ELSE {now[1] + d : d \in CarelessSteps}) :
       \E chunk \in {Quiet, ShortChunk, EmptyChunk} :
           Feed(t, chunk)

CarelessNext == CarelessCall

CarelessSpec == CarelessInit /\ [][CarelessNext]_vars

----------------------------------------------------------------------------
(* Two detector instances in one program.  The instance the caller         *)
(* addresses is held in the variables, the other one in parked.            *)

\* calls made on each instance of a pair
MaxPairedCalls == 10

\* a scripted stream fed to one instance of a pair
Paired(pattern) == [Scripted(pattern) EXCEPT !.mode = "paired"]

\* noise, then tones of two kinds with pauses: an alarm at the ninth chunk
PairedPattern ==
    <<Quiet, Quiet, Quiet, Soft, Loud, Soft, Quiet, Loud, Soft, Quiet>>

\* another stream: the tones the other way round, the pause one chunk early
OtherPattern ==
    <<Quiet, Quiet, Loud, Soft, Loud, Quiet, Soft, Loud, Quiet, Quiet>>

\* the instance the caller addresses, as a value: the fields of lines 29-51
\* with the history of its calls
Instance ==
    [cfg |-> cfg,
     start_time |-> start_time,
     ambient_background_level |-> ambient_background_level,
     ambient_samples_count |-> ambient_samples_count,
     is_learning_ambient |-> is_learning_ambient,
     detection_windows |-> detection_windows,
     last_alarm_time |-> last_alarm_time,
     is_alarm_latched |-> is_alarm_latched,
     caller |-> caller,
     now |-> now,
     calls |-> calls,
     result |-> result,
     recorded |-> recorded,
     fed |-> fed,
     background_sum |-> background_sum,
     last_detection |-> last_detection,
     detection_callback |-> detection_callback,
     delivered |-> delivered,
     last_chunk |-> last_chunk,
     raised |-> raised,
     spectral |-> spectral]

\* fault variant: one deque, shared by the instances
SharedWindows(instance) == detection_windows

\* line 49: every instance constructs a deque of its own
OwnWindows(instance) == instance.detection_windows

\* the caller turns to the other instance
Switch ==
    /\ parked # None
    /\ parked' = Some(Instance)
    /\ cfg' = parked[1].cfg
    /\ start_time' = parked[1].start_time
    /\ ambient_background_level' = parked[1].ambient_background_level
    /\ ambient_samples_count' = parked[1].ambient_samples_count
    /\ is_learning_ambient' = parked[1].is_learning_ambient
    /\ last_alarm_time' = parked[1].last_alarm_time
    /\ is_alarm_latched' = parked[1].is_alarm_latched
    /\ caller' = parked[1].caller
    /\ now' = parked[1].now
    /\ calls' = parked[1].calls
    /\ result' = parked[1].result
    /\ recorded' = parked[1].recorded
    /\ fed' = parked[1].fed
    /\ background_sum' = parked[1].background_sum
    /\ last_detection' = parked[1].last_detection
    /\ detection_callback' = parked[1].detection_callback
    /\ delivered' = parked[1].delivered
    /\ last_chunk' = parked[1].last_chunk
    /\ raised' = parked[1].raised
    /\ spectral' = parked[1].spectral
    /\ detection_windows' = OwnWindows(parked[1])
    /\ UNCHANGED <<notifier, manager>>

PairSessions ==
    {[caller |-> Paired(PairedPattern), cfg |-> ShortLatchConfig,
      other_caller |-> Paired(PairedPattern), other_cfg |-> ShortLatchConfig],
     [caller |-> Paired(PairedPattern), cfg |-> ShortLatchConfig,
      other_caller |-> Paired(OtherPattern), other_cfg |-> LongLatchConfig]}

\* two instances as constructed: they differ by their constructor
\* parameters and their stream only
PairInit ==
    \E s \in PairSessions :
        /\ Constructed({s})
        /\ parked = Some([Instance EXCEPT !.caller = s.other_caller,
                                          !.cfg = s.other_cfg])
        /\ notifier = None
        /\ manager = None

PairedCall ==
    /\ caller.mode = "paired"
    /\ calls < MaxPairedCalls
    /\ Feed(NextTick, caller.pattern[(calls % Len(caller.pattern)) + 1])

PairNext == SetDetectionCallback \/ PairedCall \/ Switch

PairSpec == PairInit /\ [][PairNext]_vars

----------------------------------------------------------------------------
(* File replay: TestRunner._process_audio_file (src/test_runner.py) makes  *)
(* a detector, registers a callback and feeds the decoded audio chunk by   *)
(* chunk.                                                                  *)

\* full chunks in the longest decoded file
MaxReplayChunks == 12

\* a decoded file of audio_len samples whose content repeats pattern, one
\* element per chunk_size samples
Replay(audio_len, pattern) ==
    [mode |-> "replay", first |-> 0, pattern |-> pattern,
     entry |-> "stream", registers |-> TRUE, audio_len |-> audio_len]

\* lengths of decoded files: whole chunks, with or without half a chunk
\* more
ReplayLengths == {40 * k + r : k \in 0 .. MaxReplayChunks, r \in {0, 20}}

ReplaySessions ==
    {[caller |-> Replay(audio_len, <<Quiet, Quiet, Soft, Loud>>),
      cfg |-> LongLatchConfig] : audio_len \in ReplayLengths}

ReplayInit == Constructed(ReplaySessions) /\ Alone

\* line 143: total_chunks = len(audio_data) // chunk_samples
TotalChunks == caller.audio_len \div cfg.chunk_size

\* line 150: the offsets range(0, len(audio_data) - chunk_samples,
\* chunk_samples) still to come; i is chunk_samples times the calls made
ReplayOffset == calls * cfg.chunk_size

ReplayContinues == ReplayOffset < caller.audio_len - cfg.chunk_size

\* line 151: audio_data[i:i + chunk_samples]
AudioSlice(i) ==
    LET rest == caller.audio_len - i
        content == caller.pattern[((i \div cfg.chunk_size) % Len(caller.pattern)) + 1]
    IN  [content EXCEPT !.samples = IF rest < cfg.chunk_size THEN rest
                                    ELSE cfg.chunk_size]

\* line 152: chunk_start_time = i / sr, in chunk periods
ChunkStartTime(i) == i \div cfg.chunk_size

\* lines 150-155: one turn of the loop
ReplayCall ==
    /\ caller.mode = "replay"
    /\ ReplayContinues
    /\ Feed(ChunkStartTime(ReplayOffset), AudioSlice(ReplayOffset))

ReplayNext == SetDetectionCallback \/ ReplayCall

ReplaySpec == ReplayInit /\ [][ReplayNext]_vars

----------------------------------------------------------------------------
(* Notification with retries: BaseNotifier.notify_with_retry               *)
(* (src/notifiers.py, lines 41-65), a coroutine that awaits                *)
(* send_notification and asyncio.sleep.  The variable notifier holds the   *)
(* notifier's fields and the position of one call of the coroutine.        *)

\* the largest max_retries of a notifier
MaxRetries == 4

\* await self.send_notification(...): True, False, or an Exception raised
SendOutcomes == {"success", "failure", "exception"}

\* retry_delay of a notifier, in seconds: the default and a longer one
RetryDelays == {1, 3}

\* lines 29-34: the constructor, and a call of notify_with_retry about to run
Notifier(enabled, max_retries, retry_delay) ==
    [enabled |-> enabled, max_retries |-> max_retries,
     retry_delay |-> retry_delay,
     pc |-> "called", attempt |-> 0, sent |-> <<>>, slept |-> <<>>,
     returned |-> None]

NotifyInit ==
    /\ Constructed({[caller |-> Scripted(<<Quiet>>), cfg |-> ShortLatchConfig]})
    /\ parked = None
    /\ manager = None
    /\ \E enabled \in BOOLEAN, max_retries \in 0 .. MaxRetries,
          retry_delay \in RetryDelays :
           notifier = Notifier(enabled, max_retries, retry_delay)

\* fault variant: one turn of the loop too many
AttemptsOneMore(n) == n.max_retries + 2

\* line 47: range(self.max_retries + 1)
Attempts(n) == n.max_retries + 1

\* line 47: the turn of the loop for attempt, or lines 64-65 after the
\* last turn
LoopTurn(n, attempt) ==
    IF attempt < Attempts(n)
    THEN [n EXCEPT !.pc = "sending", !.attempt = attempt]
    ELSE [n EXCEPT !.pc = "returned", !.returned = Some(FALSE)]

\* lines 43-47: a disabled notifier returns True at once
EnterNotify ==
    /\ notifier.pc = "called"
    /\ notifier' = IF ~notifier.enabled
                   THEN [notifier EXCEPT !.pc = "returned", !.returned = Some(TRUE)]
                   ELSE LoopTurn(notifier, 0)

\* fault variant: the delay grows by retry_delay with every attempt
DelayLinear(n) == n.retry_delay * (n.attempt + 1)

\* line 60: delay = self.retry_delay * (2 ** attempt)
Delay(n) == n.retry_delay * (2 ^ n.attempt)

\* fault variant: an exception of send_notification leaves the coroutine
AfterSendPropagating(n, outcome) ==
    IF outcome = "success"
    THEN [n EXCEPT !.pc = "returned", !.returned = Some(TRUE)]
    ELSE IF outcome = "exception"
    THEN [n EXCEPT !.pc = "raised"]
    ELSE IF n.attempt < n.max_retries
    THEN [n EXCEPT !.pc = "sleeping", !.slept = Append(@, Delay(n))]
    ELSE LoopTurn(n, n.attempt + 1)

\* lines 48-62, after the await: the result of the attempt, then the
\* guard of the sleep
AfterSend(n, outcome) ==
    IF outcome = "success"
    THEN [n EXCEPT !.pc = "returned", !.returned = Some(TRUE)]
    ELSE IF n.attempt < n.max_retries
    THEN [n EXCEPT !.pc = "sleeping", !.slept = Append(@, Delay(n))]
    ELSE LoopTurn(n, n.attempt + 1)

\* lines 48-62: send_notification completes; a success returns True, a
\* False result or an exception leads to the sleep before the next
\* attempt, or, after the last attempt, to the end of the loop
SendNotification ==
    /\ notifier.pc = "sending"
    /\ \E outcome \in SendOutcomes :
           notifier' = AfterSend([notifier EXCEPT !.sent = Append(@, outcome)], outcome)

\* line 62: asyncio.sleep(delay) completes
Sleep ==
    /\ notifier.pc = "sleeping"
    /\ notifier' = LoopTurn(notifier, notifier.attempt + 1)

NotifyNext ==
    /\ EnterNotify \/ SendNotification \/ Sleep
    /\ UNCHANGED <<cfg, start_time, ambient_background_level,
                   ambient_samples_count, is_learning_ambient, detection_windows,
                   last_alarm_time, is_alarm_latched, caller, now, calls, result,
                   recorded, fed, background_sum, last_detection,
                   detection_callback, delivered, last_chunk, raised, spectral,
                   parked, manager>>

\* the event loop resumes a coroutine whose awaited call has completed
NotifySpec == NotifyInit /\ [][NotifyNext]_vars /\ WF_vars(NotifyNext)

----------------------------------------------------------------------------
(* Fan-out: NotificationManager.notify_all (src/notifiers.py, lines        *)
(* 118-153) starts notify_with_retry of every enabled notifier, awaits     *)
(* them together and collects their results by notifier name.  The         *)
(* variable manager holds the list of notifiers and the position of one    *)
(* call of notify_all.                                                     *)

\* the longest list of notifiers of a manager
MaxNotifiers == 3

\* BaseNotifier.name: NtfyNotifier always passes "ntfy" (line 72)
NotifierNames == {"ntfy", "other"}

\* what asyncio.gather(..., return_exceptions=True) holds for a task: the
\* value notify_with_retry returned, or an Exception it raised
TaskResults == {"true", "false", "raised"}

\* lines 114-116: a manager as constructed, and a call of notify_all about
\* to run; tasks holds indices into notifiers
NotificationManager(notifiers) ==
    [notifiers |-> notifiers, pc |-> "called", tasks |-> <<>>,
     results |-> <<>>, pending |-> {}, returned |-> None]

ManagedNotifiers ==
    UNION {[1 .. n -> [name : NotifierNames, enabled : BOOLEAN]] : n \in 0 .. MaxNotifiers}

FanOutInit ==
    /\ Constructed({[caller |-> Scripted(<<Quiet>>), cfg |-> ShortLatchConfig]})
    /\ parked = None
    /\ notifier = None
    /\ \E notifiers \in ManagedNotifiers : manager = NotificationManager(notifiers)

\* lines 128-131: the enabled notifiers, in list order
RECURSIVE EnabledTasks(_)
EnabledTasks(notifiers) ==
    IF notifiers = <<>> THEN <<>>
    ELSE LET n == Len(notifiers)
             front == EnabledTasks(SubSeq(notifiers, 1, n - 1))
         IN  IF notifiers[n].enabled THEN Append(front, n) ELSE front

\* lines 140-146: notification_results[name] = ... for name, result in
\* zip(notifier_names, results), a later entry replacing an earlier one
\* of the same name; an Exception is reported False
RECURSIVE NotificationResults(_, _, _)
NotificationResults(notifiers, tasks, results) ==
    IF tasks = <<>> THEN <<>>
    ELSE LET n == Len(tasks)
             front == NotificationResults(notifiers, SubSeq(tasks, 1, n - 1),
                                          SubSeq(results, 1, n - 1))
             name == notifiers[tasks[n]].name
         IN  [k \in DOMAIN front \cup {name} |->
                 IF k = name THEN results[n] = "true" ELSE front[k]]

\* lines 120-137: no notifier, or no enabled one, returns {} at once;
\* otherwise every task is started before the await
NotifyAll ==
    /\ manager.pc = "called"
    /\ LET tasks == EnabledTasks(manager.notifiers)
       IN  manager' =
               IF manager.notifiers = <<>> \/ tasks = <<>>
               THEN [manager EXCEPT !.pc = "returned", !.returned = Some(<<>>)]
               ELSE [manager EXCEPT !.pc = "gathering", !.tasks = tasks,
                                    !.results = [i \in 1 .. Len(tasks) |-> "pending"],
                                    !.pending = 1 .. Len(tasks)]

\* line 137: one of the gathered coroutines ends, in any order
TaskEnds ==
    /\ manager.pc = "gathering"
    /\ \E i \in manager.pending, r \in TaskResults :
           manager' = [manager EXCEPT !.results[i] = r, !.pending = @ \ {i}]

\* lines 137-153: gather returns when every task has ended
Gathered ==
    /\ manager.pc = "gathering"
    /\ manager.pending = {}
    /\ manager' = [manager EXCEPT
                      !.pc = "returned",
                      !.returned = Some(NotificationResults(manager.notifiers,
                                                            manager.tasks,
                                                            manager.results))]

FanOutNext ==
    /\ NotifyAll \/ TaskEnds \/ Gathered
    /\ UNCHANGED <<cfg, start_time, ambient_background_level,
                   ambient_samples_count, is_learning_ambient, detection_windows,
                   last_alarm_time, is_alarm_latched, caller, now, calls, result,
                   recorded, fed, background_sum, last_detection,
                   detection_callback, delivered, last_chunk, raised, spectral,
                   parked, notifier>>

FanOutSpec == FanOutInit /\ [][FanOutNext]_vars

----------------------------------------------------------------------------
(* Properties.                                                             *)

\* line 103: time_since_start of the call that has just been made
TimeSinceStart == now[1] - start_time[1]

\* C1: after a call has returned a detection event at time T, a call with
\* T < t < T + alarm_latch_time returns none, and a call that returns an
\* event is at least alarm_latch_time after the previous event.
C1_LatchEnforcement ==
    [][last_detection # None =>
         /\ (/\ last_detection[1] < now'[1]
             /\ now'[1] < last_detection[1] + cfg.alarm_latch_time)
            => result' = None
         /\ result' # None
            => now'[1] - last_detection[1] >= cfg.alarm_latch_time]_vars

\* C2: after every call, is_alarm_latched implies that a detection has
\* occurred, that last_alarm_time is set and that the time of the call is
\* before last_alarm_time + alarm_latch_time.
C2_LatchInvariant ==
    is_alarm_latched =>
        /\ last_detection # None
        /\ last_alarm_time # None
        /\ now[1] < last_alarm_time[1] + cfg.alarm_latch_time

\* C3: the first call at least alarm_latch_time after a detection clears
\* is_alarm_latched and processes its chunk: it records a window, and the
\* flag is true afterwards only if that very call detects again.
C3_LatchRelease ==
    [][(/\ is_alarm_latched
        /\ last_detection # None
        /\ now'[1] - last_detection[1] >= cfg.alarm_latch_time)
       => /\ recorded' = Append(recorded, now'[1])
          /\ is_alarm_latched' => result' # None]_vars

\* the timestamp of the call just made is below that of an earlier call
TimestampWentBack == \E i \in 1 .. Len(fed) - 1 : fed[Len(fed)] < fed[i]

\* C11: a call whose timestamp is smaller than that of an earlier call
\* raises an error and leaves every field of the detector unchanged.
C11_NonMonotonicRejected ==
    [][TimestampWentBack' =>
           raised' # None /\ UNCHANGED detector_state]_vars

\* C12: a call whose array length differs from chunk_size raises an error
\* and leaves every field of the detector unchanged: start_time is not
\* set, no ambient sample is counted and no window is recorded.
C12_WrongLengthRejected ==
    [][last_chunk'[1].samples # cfg.chunk_size =>
           raised' # None /\ UNCHANGED detector_state]_vars

\* C13: no detector exists with a sample_rate, chunk_size,
\* frequency_tolerance, ambient_learning_time, alarm_sustain_threshold,
\* alarm_latch_time or min_signal_ratio that is not positive.
C13_ConfigurationValid ==
    /\ cfg.sample_rate > 0
    /\ cfg.chunk_size > 0
    /\ cfg.frequency_tolerance > 0
    /\ cfg.ambient_learning_time > 0
    /\ cfg.alarm_sustain_threshold > 0
    /\ cfg.alarm_latch_time > 0
    /\ cfg.min_signal_ratio > 0

\* C14 as stated: with a callback registered, every call that returns an
\* event, process_audio_chunk included, invokes the callback with it once
\* before it returns, and a call that returns none does not invoke it.
C14_DeliveredByEveryCall ==
    [][/\ (detection_callback # None /\ result' # None)
          => delivered' = Append(delivered, result'[1])
       /\ result' = None => delivered' = delivered]_vars

\* C14 amended: the callback is invoked by process_audio_stream, once with
\* the event its process_audio_chunk call returned, if one is registered;
\* a direct process_audio_chunk call, a call without a registered callback
\* and a call that returns none invoke nothing.
C14_DeliveredByStreamCall ==
    [][IF result' # None /\ detection_callback # None /\ caller.entry = "stream"
       THEN delivered' = Append(delivered, result'[1])
       ELSE delivered' = delivered]_vars

C14_Witness ==
    /\ result # None
    /\ delivered # <<>>
    /\ delivered[Len(delivered)] = result[1]

\* the call just made was let through by the latch and classified: it was
\* not inside a latch period and it recorded a window
ClassifiedCall ==
    /\ recorded' # recorded
    /\ ~(/\ is_alarm_latched
         /\ last_alarm_time # None
         /\ now'[1] - last_alarm_time[1] < cfg.alarm_latch_time)

\* the windows of the buffer within alarm_sustain_threshold of the latest
\* call, and the strong ones among them
RecentWindows == RecentDetections(detection_windows, now[1])

StrongWindows == StrongDetections(RecentWindows)

\* the predicate of C15 on a buffer, at the time of a call; a standard
\* deviation s is compared through s * s, a variation s / m through
\* s * s against the bound times m * m
SustainedPredicate(windows, current_time) ==
    LET recent == RecentDetections(windows, current_time)
        strong == StrongDetections(recent)
        occupation == Rat(Len(strong), Len(recent))
        ratios == [i \in 1 .. Len(strong) |-> strong[i].signal_ratio]
        freqs == [i \in 1 .. Len(strong) |-> FromInt(strong[i].frequency)]
        mean_ratio == MeanRats(ratios)
        ratio_var == PopVariance(ratios)
        freq_var == PopVariance(freqs)
        mean_freq == MeanRats(freqs)
        mean_ratio2 == RMul(mean_ratio, mean_ratio)
    IN  /\ Len(windows) >= 5
        /\ Len(recent) >= 3
        /\ Len(strong) >= 5
        /\ RLe(cfg.frequency_occupation_threshold, occupation)
        /\ RLe(<<1, 5>>, occupation) /\ RLe(occupation, <<4, 5>>)
        /\ RLt(FromInt(cfg.min_signal_ratio), mean_ratio)
        /\ RLt(RMul(<<1, 25>>, mean_ratio2), ratio_var)
        /\ RLt(ratio_var, RMul(<<36, 25>>, mean_ratio2))
        /\ \/ RLt(FromInt(100), freq_var) /\ RLt(freq_var, FromInt(10000))
           \/ RLe(freq_var, FromInt(100)) /\ RLt(FromInt(500), mean_ratio)
        /\ RLe(FromInt(cfg.target_frequency - cfg.frequency_tolerance), mean_freq)
        /\ RLe(mean_freq, FromInt(cfg.target_frequency + cfg.frequency_tolerance))

\* C15: a call that is let through by the latch and classified returns an
\* event if and only if the buffer holds at least 5 windows, at least 3 of
\* them recent, and the recent windows satisfy every condition of the
\* sustained decision (occupation, mean ratio, variation, frequency
\* consistency, mean frequency, at least 5 strong windows).
C15_SustainedDecision ==
    [][ClassifiedCall =>
           (result' # None <=> SustainedPredicate(detection_windows', now'[1]))]_vars

C15_Witness ==
    /\ result # None
    /\ Len(detection_windows) >= 7
    /\ Len(StrongWindows) = 5

\* C16: an event is never returned when every window inside the analysis
\* window is strong, and the frequency_occupation of a returned event is
\* the share of strong windows among the recent ones, within [0.20, 0.80]
\* and at least frequency_occupation_threshold.
C16_OccupationBound ==
    result # None =>
        /\ Len(StrongWindows) < Len(RecentWindows)
        /\ result[1].frequency_occupation =
               Rat(Len(StrongWindows), Len(RecentWindows))
        /\ RLe(<<1, 5>>, result[1].frequency_occupation)
        /\ RLe(result[1].frequency_occupation, <<4, 5>>)
        /\ RLe(cfg.frequency_occupation_threshold, result[1].frequency_occupation)

C16_Witness ==
    /\ result # None
    /\ result[1].frequency_occupation = <<5, 7>>
    /\ Len(RecentWindows) = 7

\* the premises of C17 on a buffer, at the time of a call: exactly half of
\* the recent windows are strong, at least 5 of them, their frequency is
\* consistent and each of their signal ratios is above min_signal_ratio
HalfStrong(windows, current_time) ==
    LET recent == RecentDetections(windows, current_time)
        strong == StrongDetections(recent)
        ratios == [i \in 1 .. Len(strong) |-> strong[i].signal_ratio]
        freqs == [i \in 1 .. Len(strong) |-> FromInt(strong[i].frequency)]
        freq_var == PopVariance(freqs)
    IN  /\ 2 * Len(strong) = Len(recent)
        /\ Len(strong) >= 5
        /\ \A i \in 1 .. Len(strong) : RLt(FromInt(cfg.min_signal_ratio), ratios[i])
        /\ \/ RLt(FromInt(100), freq_var) /\ RLt(freq_var, FromInt(10000))
           \/ RLe(freq_var, FromInt(100)) /\ RLt(FromInt(500), MeanRats(ratios))

\* the variation of the signal ratios of the recent strong windows of a
\* buffer is strictly between 0.2 and 1.2
VariesModerately(windows, current_time) ==
    LET strong == StrongDetections(RecentDetections(windows, current_time))
        ratios == [i \in 1 .. Len(strong) |-> strong[i].signal_ratio]
        mean_ratio2 == Square(MeanRats(ratios))
        ratio_var == PopVariance(ratios)
    IN  /\ RLt(RMul(<<1, 25>>, mean_ratio2), ratio_var)
        /\ RLt(ratio_var, RMul(<<36, 25>>, mean_ratio2))

\* C17 as stated: a call that is let through by the latch and classified,
\* and whose recent windows are half strong as above, returns an event.
C17_HalfStrongTriggers ==
    [][LET windows == detection_windows'
           current_time == now'[1]
       IN  (ClassifiedCall /\ HalfStrong(windows, current_time))
           => result' # None]_vars

\* C17 amended: such a call returns an event if moreover the variation of
\* the signal ratios of the strong windows is strictly between 0.2 and 1.2
\* and frequency_occupation_threshold is at most one half.
C17_HalfStrongVaryingTriggers ==
    [][LET windows == detection_windows'
           current_time == now'[1]
       IN  (/\ ClassifiedCall
            /\ RLe(cfg.frequency_occupation_threshold, <<1, 2>>)
            /\ HalfStrong(windows, current_time)
            /\ VariesModerately(windows, current_time))
           => result' # None]_vars

C17_Witness ==
    /\ result # None
    /\ Len(RecentWindows) = 10
    /\ Len(StrongWindows) = 5

\* C18: a call that returns an event sets last_alarm_time to its
\* current_time and is_alarm_latched to true; the event carries that time,
\* the type "sustained_frequency", alarm_sustain_threshold as
\* analysis_window, the share of strong windows among the recent ones as
\* frequency_occupation and min(1, 2 * frequency_occupation), a number in
\* [0, 1], as confidence.  A call that returns none leaves last_alarm_time
\* unchanged and does not set is_alarm_latched.
C18_DetectionEffects ==
    [][LET windows == detection_windows'
           current_time == now'[1]
           recent == RecentDetections(windows, current_time)
           occupation == Rat(Len(StrongDetections(recent)), Len(recent))
       IN  IF result' # None
           THEN /\ last_alarm_time' = Some(current_time)
                /\ is_alarm_latched'
                /\ result'[1].timestamp = current_time
                /\ result'[1].detection_type = "sustained_frequency"
                /\ result'[1].analysis_window = cfg.alarm_sustain_threshold
                /\ result'[1].frequency_occupation = occupation
                /\ result'[1].confidence =
                       (IF RLt(FromInt(1), RMul(FromInt(2), occupation))
                        THEN FromInt(1) ELSE RMul(FromInt(2), occupation))
                /\ RLe(FromInt(0), result'[1].confidence)
                /\ RLe(result'[1].confidence, FromInt(1))
           ELSE /\ last_alarm_time' = last_alarm_time
                /\ is_alarm_latched' => is_alarm_latched]_vars

C18_Witness ==
    /\ result # None
    /\ result[1].confidence = <<2, 3>>
    /\ is_alarm_latched
    /\ last_alarm_time = now

\* the window C19 expects for a chunk, given the ambient level
ExpectedWindow(chunk, timestamp, ambient) ==
    LET a == Analyze(chunk)
        peak == FromInt(a.peak_magnitude)
        ratio == RDiv(peak, ambient)
    IN  [timestamp |-> timestamp,
         is_strong_signal |->
             /\ RLt(FromInt(cfg.min_signal_ratio), ratio)
             /\ RLt(FromInt(8), RDiv(peak, a.current_background))
             /\ RLt(RMul(FromInt(12), a.mean_magnitude), peak),
         frequency |-> a.peak_frequency,
         signal_ratio |-> ratio,
         magnitude |-> a.peak_magnitude]

\* C19: the window recorded by a call that is let through by the latch
\* and classified, for a chunk with a non-empty target band, stores the
\* timestamp of the call, the peak frequency, the ratio of the peak to the
\* ambient level and the peak magnitude; it is strong if and only if that
\* ratio is above min_signal_ratio, the peak is above 8 times the
\* background of the chunk and above 12 times the mean of all magnitudes.
C19_PerChunkClassification ==
    [][LET chunk == last_chunk'[1]
           ambient == ambient_background_level'
           window == detection_windows'[Len(detection_windows')]
       IN  (ClassifiedCall /\ TargetMask(chunk) # {})
           => /\ window.timestamp = now'[1]
              /\ window = ExpectedWindow(chunk, window.timestamp, ambient)]_vars

C19_Witness ==
    /\ detection_windows # <<>>
    /\ last_chunk = Some(Hum)
    /\ detection_windows[Len(detection_windows)].timestamp = now[1]
    /\ detection_windows[Len(detection_windows)].signal_ratio = FromInt(100)
    /\ ~detection_windows[Len(detection_windows)].is_strong_signal

\* the state of the detector after the latest call: Learning while
\* is_learning_ambient, Latched while is_alarm_latched within
\* alarm_latch_time of last_alarm_time, Active otherwise
Phase ==
    IF is_learning_ambient THEN "Learning"
    ELSE IF /\ is_alarm_latched
            /\ last_alarm_time # None
            /\ now[1] - last_alarm_time[1] < cfg.alarm_latch_time
         THEN "Latched"
         ELSE "Active"

\* C20: the detector starts in Learning, and a call changes its state only
\* from Learning to Active (the learning window has elapsed), from Active
\* to Latched (the call returns an event) or from Latched to Active (the
\* latch period has elapsed); Learning is never re-entered and Latched is
\* never entered from Learning.
C20_StateMachineShape ==
    /\ Phase = "Learning"
    /\ [][/\ Phase' # Phase
             => <<Phase, Phase'>> \in {<<"Learning", "Active">>,
                                      <<"Active", "Latched">>,
                                      <<"Latched", "Active">>}
          /\ (Phase = "Learning" /\ Phase' = "Active")
             => TimeSinceStart' >= cfg.ambient_learning_time
          /\ (Phase = "Active" /\ Phase' = "Latched")
             => result' # None
          /\ (Phase = "Latched" /\ Phase' = "Active")
             => now'[1] - last_alarm_time[1] >= cfg.alarm_latch_time]_vars

C20_Witness ==
    /\ Phase = "Active"
    /\ last_detection # None
    /\ ~is_alarm_latched

\* the step is a call of the detector (registering the callback is not)
CallMade == calls' = calls + 1

\* C4: a call made less than ambient_learning_time after start_time returns
\* none and appends no window, and the buffer is empty whenever
\* is_learning_ambient is true.
C4_NoClassificationWhileLearning ==
    [][/\ CallMade /\ TimeSinceStart' < cfg.ambient_learning_time
          => result' = None /\ detection_windows' = detection_windows
       /\ is_learning_ambient' => detection_windows' = <<>>]_vars

C4_Witness ==
    is_learning_ambient /\ calls >= 2 /\ TimeSinceStart = cfg.ambient_learning_time - 1

\* C5: is_learning_ambient never goes back to true; it goes from true to
\* false on the first call whose elapsed time since start_time is at least
\* ambient_learning_time, and that call appends its window and returns what
\* the sustained analysis of the buffer gives.
C5_LearningEndsOnce ==
    [][/\ ~is_learning_ambient => ~is_learning_ambient'
       /\ CallMade /\ is_learning_ambient
          => (is_learning_ambient' <=> TimeSinceStart' < cfg.ambient_learning_time)
       /\ (is_learning_ambient /\ ~is_learning_ambient')
          => /\ Len(detection_windows') = Len(detection_windows) + 1
             /\ detection_windows'[Len(detection_windows')].timestamp = now'[1]
             /\ result' # None <=> AlarmDetected(detection_windows', now'[1])]_vars

C5_Witness ==
    ~is_learning_ambient /\ ambient_samples_count >= 1 /\ Len(recorded) = 1

\* C6: ambient_samples_count never decreases, a call that leaves the
\* detector learning adds exactly 1 to it, and once is_learning_ambient is
\* false no call changes ambient_samples_count or ambient_background_level.
C6_AmbientFrozenAfterLearning ==
    [][/\ ambient_samples_count' >= ambient_samples_count
       /\ CallMade /\ is_learning_ambient'
          => ambient_samples_count' = ambient_samples_count + 1
       /\ ~is_learning_ambient
          => /\ ambient_samples_count' = ambient_samples_count
             /\ ambient_background_level' = ambient_background_level]_vars

C6_Witness ==
    ~is_learning_ambient /\ ambient_samples_count >= 2 /\ Len(recorded) >= 2

\* C7: once N >= 1 chunks have been processed inside the learning window,
\* ambient_background_level is the sum of their backgrounds divided by N;
\* while the detector learns N is the number of calls and the last call
\* returned none.
C7_AmbientMean ==
    /\ ambient_samples_count >= 1
       => ambient_background_level =
              RDiv(background_sum, FromInt(ambient_samples_count))
    /\ is_learning_ambient
       => ambient_samples_count = calls /\ result = None

C7_Witness ==
    /\ is_learning_ambient
    /\ ambient_samples_count = 3
    /\ background_sum = FromInt(5)
    /\ ambient_background_level = <<5, 3>>

\* C8: the buffer never holds more than 100 entries, and an append to a
\* full buffer drops its oldest entry, keeps the other 99 in order and puts
\* the new window last.
C8_RingBufferBound ==
    [][/\ Len(detection_windows') <= detection_windows_maxlen
       /\ (/\ Len(detection_windows) = detection_windows_maxlen
           /\ recorded' # recorded)
          => /\ Len(detection_windows') = detection_windows_maxlen
             /\ detection_windows'[detection_windows_maxlen].timestamp = now'[1]
             /\ detection_windows' =
                    Append(Tail(detection_windows),
                           detection_windows'[detection_windows_maxlen])]_vars

C8_Witness ==
    /\ Len(recorded) > detection_windows_maxlen
    /\ Len(detection_windows) = detection_windows_maxlen

\* C9 as stated: after 150 chunks have been fed the buffer holds exactly
\* 100 entries and its oldest entry has the timestamp of chunk 51.
C9_AfterFeeding150 ==
    calls = 150 =>
        /\ Len(detection_windows) = 100
        /\ detection_windows[1].timestamp = fed[51]

\* C9 amended: once 150 windows have been recorded the buffer holds exactly
\* the last 100 of them in order, its oldest entry being the 51st recorded.
C9_AfterRecording150 ==
    Len(recorded) = 150 =>
        /\ Len(detection_windows) = 100
        /\ \A i \in 1 .. 100 : detection_windows[i].timestamp = recorded[50 + i]

C9_Witness == Len(recorded) = 150 /\ calls > 150

\* C10 as stated: each entry of the buffer has a timestamp less than the
\* timestamp of the entry appended after it.
C10_StrictlyOrdered ==
    \A i \in 1 .. Len(detection_windows) - 1 :
        detection_windows[i].timestamp < detection_windows[i + 1].timestamp

\* C10 amended: each entry of the buffer has a timestamp less than or
\* equal to the timestamp of the entry appended after it.
C10_Ordered ==
    \A i \in 1 .. Len(detection_windows) - 1 :
        detection_windows[i].timestamp <= detection_windows[i + 1].timestamp

C10_Witness ==
    /\ Len(detection_windows) >= 3
    /\ detection_windows[1].timestamp = detection_windows[2].timestamp
    /\ detection_windows[2].timestamp < detection_windows[3].timestamp

\* the stream being replayed is the 20-second scenario: noise, then a
\* pulsed 3200 Hz tone, repeated without a reset
InScenario == caller.pattern \in {AlignedPulses, EdgedPulses}

\* the event the scenario expects
IsScenarioEvent(event) ==
    /\ event.detection_type = "sustained_frequency"
    /\ RLe(FromInt(2800), event.frequency)
    /\ RLe(event.frequency, FromInt(3600))
    /\ RLt(FromInt(0), event.confidence)
    /\ RLe(event.confidence, FromInt(1))

\* two successive events are at least alarm_latch_time apart
EventsApart ==
    \A i \in 1 .. Len(delivered) - 1 :
        delivered[i + 1].timestamp - delivered[i].timestamp >= cfg.alarm_latch_time

\* the ratios of the tone chunks of a stream to the level of its noise vary
\* by a coefficient strictly between 0.2 and 1.2
TonesVary(pattern) ==
    LET IsTone(chunk) == chunk.tone_mag > chunk.floor
        tones == SelectSeq(pattern, IsTone)
        ratios == [i \in 1 .. Len(tones) |->
                      RDiv(FromInt(tones[i].tone_mag), Analyze(Quiet).current_background)]
        mean_ratio2 == Square(MeanRats(ratios))
        ratio_var == PopVariance(ratios)
    IN  /\ RLt(RMul(<<1, 25>>, mean_ratio2), ratio_var)
        /\ RLt(ratio_var, RMul(<<36, 25>>, mean_ratio2))

\* C21 as stated: once the 20-second scenario has been fed, exactly one
\* event has been emitted, of type "sustained_frequency", with a frequency
\* within [2800, 3600] and a confidence in (0, 1]; feeding the stream again
\* emits no event before alarm_latch_time has elapsed.
C21_ScenarioOneEvent ==
    InScenario =>
        /\ calls >= Len(caller.pattern)
           => Len(delivered) = 1 /\ IsScenarioEvent(delivered[1])
        /\ EventsApart

\* C21 amended: the scenario emits that one event if the signal ratios of
\* its tone chunks vary by a coefficient strictly between 0.2 and 1.2, as
\* they do when the pulses end inside chunks; a stream whose tone chunks all
\* have the same ratio emits no event.
C21_VaryingScenarioOneEvent ==
    InScenario =>
        /\ IF TonesVary(caller.pattern)
           THEN calls >= Len(caller.pattern)
                => Len(delivered) = 1 /\ IsScenarioEvent(delivered[1])
           ELSE delivered = <<>>
        /\ EventsApart

C21_Witness ==
    /\ caller.pattern = EdgedPulses
    /\ calls = 2 * Len(EdgedPulses)
    /\ Len(delivered) = 1
    /\ is_alarm_latched

\* two instances were built with the same configuration and have been fed
\* the same chunks with the same timestamps, through the same entry point
\* and with the same callback registration
SameInputs(a, b) ==
    /\ a.cfg = b.cfg
    /\ a.caller = b.caller
    /\ a.calls = b.calls
    /\ a.fed = b.fed
    /\ a.detection_callback = b.detection_callback

\* the spectral quantities two instances computed in their latest calls agree
SameSpectrum(a, b) ==
    /\ a.current_background = b.current_background
    /\ DOMAIN a = DOMAIN b => a = b

WindowTimes(windows) == [i \in 1 .. Len(windows) |-> windows[i].timestamp]

\* what an instance holds comes from its own calls: its buffer holds the
\* windows its calls recorded, it has counted no more learning chunks than
\* it was fed chunks, and the events delivered to its callback carry the
\* timestamps of its own calls
OwnHistory(d) ==
    /\ Len(d.fed) = d.calls
    /\ WindowTimes(d.detection_windows) = d.recorded
    /\ d.ambient_samples_count + Len(d.recorded) <= d.calls
    /\ \A i \in 1 .. Len(d.recorded) :
           \E j \in 1 .. Len(d.fed) : d.fed[j] = d.recorded[i]
    /\ \A i \in 1 .. Len(d.delivered) :
           \E j \in 1 .. Len(d.recorded) : d.recorded[j] = d.delivered[i].timestamp

\* C23: with two instances in one program, whatever the interleaving of
\* their calls, each instance holds what its own calls produced, and every
\* step either leaves the instance that is not addressed exactly as it was
\* (a call on the other one) or turns to it and finds it exactly as it was
\* left.
C23_Isolated ==
    /\ [](parked # None => OwnHistory(Instance) /\ OwnHistory(parked[1]))
    /\ [][\/ parked' = parked
          \/ parked' = Some(Instance) /\ Instance' = parked[1]]_vars

C23_Witness ==
    /\ parked # None
    /\ cfg # parked[1].cfg
    /\ delivered # <<>>
    /\ parked[1].delivered # <<>>
    /\ delivered # parked[1].delivered

\* C24: a call made while the latch is active (is_alarm_latched, and less
\* than alarm_latch_time after last_alarm_time) returns none and leaves
\* start_time, the ambient level and count, is_learning_ambient, the
\* buffer, last_alarm_time and is_alarm_latched unchanged.
C24_LatchedCallsAreNoOps ==
    [][(/\ CallMade
        /\ is_alarm_latched
        /\ last_alarm_time # None
        /\ now'[1] - last_alarm_time[1] < cfg.alarm_latch_time)
       => result' = None /\ UNCHANGED detector_state]_vars

\* C25: start_time is unset until the first call, the first call sets it
\* to its current_time, and no later call changes it, whether its timestamp
\* is 0 or smaller than an earlier one.
C25_StartTimeSetOnce ==
    /\ start_time = None
    /\ [][IF CallMade /\ start_time = None
          THEN start_time' = Some(now'[1])
          ELSE start_time' = start_time]_vars

C25_Witness ==
    /\ start_time = Some(0)
    /\ fed = <<0, -1, 0>>

\* other values for the peak_frequency and signal_ratio arguments of the
\* sustained analysis
OtherArguments == {<<0, FromInt(0)>>, <<3600, FromInt(2000)>>}

\* C26: a call that records a window for a chunk with a non-empty target
\* band leaves the buffer as the recording left it (the previous buffer with
\* the new window appended), and returns what the sustained analysis gives
\* for that buffer and the time of the call whatever peak_frequency and
\* signal_ratio it is called with; the analysis reads neither the ambient
\* level nor the sample counter.
C26_AnalysisIsPure ==
    [][(recorded' # recorded /\ TargetMask(last_chunk'[1]) # {})
       => LET windows == detection_windows'
              current_time == now'[1]
          IN  /\ windows = RingAppend(detection_windows, windows[Len(windows)])
              /\ \A args \in OtherArguments :
                     AnalyzeSustainedDetection(windows, current_time,
                                               args[1], args[2]) = result']_vars

C26_Witness ==
    /\ result # None
    /\ spectral # None
    /\ result[1].frequency # FromInt(spectral[1].peak_frequency)
    /\ result[1].strength # detection_windows[Len(detection_windows)].signal_ratio

\* C27: a call with a chunk none of whose bins falls inside the target band
\* raises nothing and returns none; made after learning, it appends a
\* window that is not strong, with frequency 0, ratio 0 and magnitude 0.
\* A detector whose band is empty for its chunks therefore emits nothing.
C27_EmptyBand ==
    [][(CallMade /\ TargetMask(last_chunk'[1]) = {})
       => /\ raised' = None
          /\ result' = None
          /\ delivered' = <<>>
          /\ ~is_learning_ambient'
             => detection_windows' =
                    RingAppend(detection_windows,
                               [timestamp |-> now'[1],
                                is_strong_signal |-> FALSE,
                                frequency |-> 0,
                                signal_ratio |-> FromInt(0),
                                magnitude |-> 0])]_vars

C27_Witness ==
    /\ last_chunk = Some(Loud)
    /\ TargetMask(Loud) = {}
    /\ Len(detection_windows) >= 7
    /\ detection_windows[Len(detection_windows)].frequency = 0
    /\ detection_windows[Len(detection_windows)].timestamp = now[1]
    /\ result = None

\* the decision of a detector that keeps only the tighter variation check
DecisionWithTightCheckOnly(recent, strong) ==
    LET ratio == FrequencyOccupationRatio(recent, strong)
        freq_variance == PopVariance(Frequencies(strong))
        avg_frequency == MeanRats(Frequencies(strong))
        avg_signal_ratio == MeanRats(SignalRatios(strong))
        variation2 == Variation2(avg_signal_ratio, PopVariance(SignalRatios(strong)))
    IN  /\ RLe(cfg.frequency_occupation_threshold, ratio)
        /\ IsReasonableOccupation(ratio)
        /\ RLt(FromInt(cfg.min_signal_ratio), avg_signal_ratio)
        /\ HasAppropriateConsistency(freq_variance, avg_signal_ratio, variation2)
        /\ RLe(FromInt(cfg.target_frequency - cfg.frequency_tolerance), avg_frequency)
        /\ RLe(avg_frequency, FromInt(cfg.target_frequency + cfg.frequency_tolerance))
        /\ Len(strong) >= 5

AlarmWithTightCheckOnly(windows, current_time) ==
    LET recent == RecentDetections(windows, current_time)
        strong == StrongDetections(recent)
    IN  /\ Len(windows) >= 5
        /\ Len(recent) >= 3
        /\ Len(strong) >= 2
        /\ DecisionWithTightCheckOnly(recent, strong)

\* C28: on every call that reaches the sustained analysis, the detector
\* returns an event exactly when the decision that keeps only the check
\* 0.2 < variation < 1.2 and drops the check 0.1 <= variation <= 2.0 says
\* alarm: the two detectors decide alike on every call.
C28_LooseCheckRedundant ==
    [][(recorded' # recorded /\ TargetMask(last_chunk'[1]) # {})
       => LET windows == detection_windows'
              current_time == now'[1]
          IN  (result' # None) <=> AlarmWithTightCheckOnly(windows, current_time)]_vars

C28_Witness ==
    /\ now # None
    /\ result # None
    /\ recorded # <<>>
    /\ AlarmWithTightCheckOnly(detection_windows, now[1])
    /\ LET strong == StrongDetections(RecentDetections(detection_windows, now[1]))
           avg_signal_ratio == MeanRats(SignalRatios(strong))
       IN  HasReasonableVariation(
               Variation2(avg_signal_ratio, PopVariance(SignalRatios(strong))))

\* the loop of the replay has run to its end
ReplayDone == detection_callback # None /\ ~ReplayContinues

\* C29: the replay feeds full chunks only, at strictly increasing
\* timestamps, chunk k at time k; when its loop has ended it has made as
\* many calls as full chunks fit in the audio, the total_chunks it reports.
C29_ReplayFeedsEveryFullChunk ==
    /\ last_chunk # None => last_chunk[1].samples = cfg.chunk_size
    /\ fed = [k \in 1 .. calls |-> k - 1]
    /\ ReplayDone => calls = TotalChunks

\* C30: an enabled notifier makes at most max_retries + 1 send attempts,
\* none after one that succeeded; the call returns in the end; it returns
\* True exactly when an attempt succeeded, and False only after
\* max_retries + 1 attempts.
C30_RetryBoundAndResult ==
    /\ [](notifier.enabled =>
            /\ Len(notifier.sent) <= notifier.max_retries + 1
            /\ \A i \in 1 .. Len(notifier.sent) - 1 : notifier.sent[i] # "success"
            /\ notifier.returned # None =>
                   (notifier.returned[1] <=>
                        \E i \in 1 .. Len(notifier.sent) : notifier.sent[i] = "success")
            /\ notifier.returned = Some(FALSE) =>
                   Len(notifier.sent) = notifier.max_retries + 1)
    /\ <>(notifier.pc = "returned")

C30_Witness ==
    /\ notifier.enabled
    /\ notifier.max_retries = 3
    /\ notifier.sent = <<"failure", "exception", "success">>
    /\ notifier.slept = <<1, 2>>
    /\ notifier.returned = Some(TRUE)

\* the notifier with the exceptions among its attempts read as False results
AsFalseResults(n) ==
    [n EXCEPT !.sent = [i \in 1 .. Len(n.sent) |->
                           IF n.sent[i] = "exception" THEN "failure" ELSE n.sent[i]]]

\* C31: an attempt that raised an exception leaves the call where an
\* attempt that returned False leaves it: counted as one attempt, followed
\* by the same sleep or the same return; the call never ends by raising.
C31_ExceptionAbsorbed ==
    /\ [](notifier.pc \in {"called", "sending", "sleeping", "returned"})
    /\ [][(Len(notifier'.sent) = Len(notifier.sent) + 1
           /\ notifier'.sent[Len(notifier'.sent)] = "exception")
          => /\ AsFalseResults(notifier') =
                    AsFalseResults(AfterSend([notifier EXCEPT !.sent = Append(@, "failure")],
                                             "failure"))
             /\ notifier'.pc = "returned" => notifier'.returned = Some(FALSE)]_vars

C31_Witness ==
    /\ notifier.enabled
    /\ notifier.max_retries = 2
    /\ notifier.sent = <<"exception", "exception", "exception">>
    /\ notifier.slept = <<1, 2>>
    /\ notifier.returned = Some(FALSE)

RECURSIVE SumInts(_)
SumInts(s) == IF s = <<>> THEN 0 ELSE Head(s) + SumInts(Tail(s))

\* the sum of the delays slept so far
TotalSlept == SumInts(notifier.slept)

\* C32: the k-th sleep of a call (k = 0, 1, ...) lasts retry_delay * 2^k;
\* a sleep follows every failed attempt but the last, never a success;
\* a call whose attempts all failed has slept max_retries times,
\* retry_delay * (2^max_retries - 1) in total.
C32_ExponentialBackoff ==
    notifier.enabled =>
        /\ notifier.slept =
               [k \in 1 .. Len(notifier.slept) |-> notifier.retry_delay * 2 ^ (k - 1)]
        /\ notifier.pc = "sending" => Len(notifier.slept) = Len(notifier.sent)
        /\ notifier.pc = "sleeping" => Len(notifier.slept) = Len(notifier.sent)
        /\ notifier.returned = Some(TRUE) =>
               Len(notifier.slept) = Len(notifier.sent) - 1
        /\ notifier.returned = Some(FALSE) =>
               /\ Len(notifier.slept) = notifier.max_retries
               /\ TotalSlept = notifier.retry_delay * (2 ^ notifier.max_retries - 1)

C32_Witness ==
    /\ notifier.enabled
    /\ notifier.max_retries = 4
    /\ notifier.retry_delay = 3
    /\ notifier.returned = Some(FALSE)
    /\ notifier.slept = <<3, 6, 12, 24>>
    /\ Len(notifier.sent) = 5

\* C33: notify_all starts a task for every enabled notifier and for no
\* other, all of them before any has to end; the map it returns has one
\* entry for each enabled notifier and none for a disabled one, and the
\* entry of a notifier is True exactly when its own delivery returned
\* True, whatever the other deliveries did.
C33_FanOutComplete ==
    LET enabled == {i \in DOMAIN manager.notifiers : manager.notifiers[i].enabled}
    IN  /\ manager.pc = "gathering" =>
               {manager.tasks[i] : i \in DOMAIN manager.tasks} = enabled
        /\ manager.returned # None =>
               /\ Cardinality(DOMAIN manager.returned[1]) = Cardinality(enabled)
               /\ \A i \in DOMAIN manager.tasks :
                      LET name == manager.notifiers[manager.tasks[i]].name
                      IN  /\ name \in DOMAIN manager.returned[1]
                          /\ manager.returned[1][name] = (manager.results[i] = "true")

\* the strong windows inside the analysis window at current_time
StrongRecent(windows, current_time) ==
    StrongDetections(RecentDetections(windows, current_time))

\* all the windows of a sequence carry one signal ratio
ConstantStrength(strong) ==
    \A i, j \in 1 .. Len(strong) : strong[i].signal_ratio = strong[j].signal_ratio

\* C34: a call whose strong windows inside the analysis window all carry
\* the same signal ratio returns no event; an event is returned only with
\* at least two such windows of different signal ratios.
C34_ConstantStrengthNeverDetects ==
    [][CallMade
       => LET strong == StrongRecent(detection_windows', now'[1])
          IN  /\ ConstantStrength(strong) => result' = None
              /\ result' # None =>
                     \E i, j \in 1 .. Len(strong) :
                         strong[i].signal_ratio # strong[j].signal_ratio]_vars

C34_Witness ==
    /\ now # None
    /\ recorded # <<>>
    /\ fed[Len(fed)] = recorded[Len(recorded)]
    /\ result = None
    /\ LET recent == RecentDetections(detection_windows, now[1])
           strong == StrongDetections(recent)
       IN  /\ Len(strong) >= 5
           /\ ConstantStrength(strong)
           /\ IsReasonableOccupation(FrequencyOccupationRatio(recent, strong))
           /\ RLt(FromInt(500), MeanRats(SignalRatios(strong)))

\* C35: with alarm_latch_time > alarm_sustain_threshold, a call made once
\* the latch period of the last detection is over finds no window recorded
\* before the end of that period inside its analysis window, and returns
\* no event while fewer than 7 windows lie inside the analysis window.
C35_HistoryGapAfterLatch ==
    [][(/\ CallMade
        /\ last_alarm_time # None
        /\ cfg.alarm_latch_time > cfg.alarm_sustain_threshold
        /\ now'[1] >= last_alarm_time[1] + cfg.alarm_latch_time)
       => LET windows == detection_windows'
              current_time == now'[1]
              expiry == last_alarm_time[1] + cfg.alarm_latch_time
              recent == RecentDetections(windows, current_time)
          IN  /\ \A i \in 1 .. Len(recent) : recent[i].timestamp >= expiry
              /\ Len(recent) < 7 => result' = None]_vars

\* C36: a call that returns an event has at least 7 windows inside its
\* analysis window, at least 5 of them strong and at least 2 of them not
\* strong; no event is returned before 7 chunks have been classified.
C36_MinimumEvidence ==
    [][(CallMade /\ result' # None)
       => LET windows == detection_windows'
              current_time == now'[1]
              recent == RecentDetections(windows, current_time)
              strong == StrongDetections(recent)
          IN  /\ Len(recent) >= 7
              /\ Len(strong) >= 5
              /\ Len(recent) - Len(strong) >= 2
              /\ Len(recorded') >= 7]_vars

C36_Witness ==
    /\ now # None
    /\ result # None
    /\ Len(recorded) = 7
    /\ LET recent == RecentDetections(detection_windows, now[1])
       IN  /\ Len(recent) = 7
           /\ Len(StrongDetections(recent)) = 5

\* frequency lies inside the target band
InBand(frequency) ==
    /\ RLe(FromInt(cfg.target_frequency - cfg.frequency_tolerance), frequency)
    /\ RLe(frequency, FromInt(cfg.target_frequency + cfg.frequency_tolerance))

\* the decision of a detector that does not test the mean frequency
DecisionWithoutBandCheck(recent, strong) ==
    LET ratio == FrequencyOccupationRatio(recent, strong)
        freq_variance == PopVariance(Frequencies(strong))
        avg_signal_ratio == MeanRats(SignalRatios(strong))
        variation2 == Variation2(avg_signal_ratio, PopVariance(SignalRatios(strong)))
    IN  /\ RLe(cfg.frequency_occupation_threshold, ratio)
        /\ IsReasonableOccupation(ratio)
        /\ RLt(FromInt(cfg.min_signal_ratio), avg_signal_ratio)
        /\ HasReasonableVariation(variation2)
        /\ HasAppropriateConsistency(freq_variance, avg_signal_ratio, variation2)
        /\ Len(strong) >= 5

AlarmWithoutBandCheck(windows, current_time) ==
    LET recent == RecentDetections(windows, current_time)
        strong == StrongDetections(recent)
    IN  /\ Len(windows) >= 5
        /\ Len(recent) >= 3
        /\ Len(strong) >= 2
        /\ DecisionWithoutBandCheck(recent, strong)

\* C37: every strong window of the buffer has its frequency inside the
\* target band; so has the mean frequency of the strong windows of every
\* analysis, and a call returns an event exactly when the decision without
\* the band check says alarm.
C37_StrongWindowsInBand ==
    /\ [](\A i \in 1 .. Len(detection_windows) :
              detection_windows[i].is_strong_signal
                  => InBand(FromInt(detection_windows[i].frequency)))
    /\ [][(recorded' # recorded /\ TargetMask(last_chunk'[1]) # {})
          => LET windows == detection_windows'
                 current_time == now'[1]
                 strong == StrongRecent(windows, current_time)
             IN  /\ strong # <<>> => InBand(MeanRats(Frequencies(strong)))
                 /\ (result' # None) <=> AlarmWithoutBandCheck(windows, current_time)]_vars

C37_Witness ==
    /\ now # None
    /\ result # None
    /\ LET strong == StrongRecent(detection_windows, now[1])
       IN  /\ \E i, j \in 1 .. Len(strong) : strong[i].frequency # strong[j].frequency
           /\ InBand(MeanRats(Frequencies(strong)))
           /\ AlarmWithoutBandCheck(detection_windows, now[1])

\* C38: with a positive ambient_learning_time the first call learns, so
\* that at least one sample has been learnt whenever the learning phase is
\* over or a window has been recorded.
C38_AmbientLearnedBeforeUse ==
    cfg.ambient_learning_time > 0 =>
        /\ ~is_learning_ambient => ambient_samples_count >= 1
        /\ recorded # <<>> => ambient_samples_count >= 1
        /\ (calls >= 1 /\ raised = None) => ambient_samples_count >= 1

====
